---- MODULE Spec2Model ----
(***************************************************************************)
(* Scenario versioning (DRAFT / MASTER / ARCHIVED), the publish protocol   *)
(* and resource replication of BudgetLanding, as driven by the hook        *)
(* useAppLogic over scenarioService and resourceService.                   *)
(*                                                                         *)
(* The document store is the pair (scenarios, resources).  The hook keeps  *)
(* a local copy of it (versions, activeResources) that only changes when a *)
(* subscription callback is delivered.  An asynchronous operation of the   *)
(* hook is a task: its synchronous prefix runs when it is invoked and      *)
(* captures the values of the render it was created in, and each awaited   *)
(* store call is one later step.  Nothing in the source orders two store   *)
(* calls that are in flight at the same time (the same user's sessions run *)
(* the same hook against the same store), so they commit in any order.     *)
(*                                                                         *)
(* Spec starts from a new user; SpecProject starts from a project that     *)
(* already holds a draft with resources.                                   *)
(***************************************************************************)
EXTENDS Integers, FiniteSets, Sequences, TLC

\* ---------------------------------------------------------------- bounds
MaxScenarios == 4      \* scenario documents created in a run that does not edit
EditScenarios == 3     \* scenario documents created in a run that edits
ProjectScenarios == 2  \* scenario documents of a run that starts from a project already built
MaxResources == 4      \* resource documents created in a run
MaxTasks == 2          \* asynchronous hook operations in flight together
MaxNow == 1            \* readings of the clock
MaxEnvelopes == 1      \* envelope ids the forms generate
MaxTjm == 2            \* daily rates a resource form offers
MaxDate == 1           \* calendar days an override can be set on
MaxAmount == 2         \* amounts an envelope form offers
MaxEdits == 1          \* editing operations that reach the store in a run
MaxYears == 2          \* calendar years a view can show
MaxOverrides == 1      \* overrides of a resource whose calendar is computed
MaxHolidays == 1       \* imported holidays of a resource whose calendar is computed
MaxRefs == 2           \* resource objects a view holds while it reads the stats cache
MaxCalls == 4          \* calls of getCachedResourceStats in a run
MaxTemplates == 2      \* calendar templates created in a run
MaxTemplateOps == 2    \* calendarService calls in flight together
MaxDocs == 2           \* scenario documents in the store a subscription reads
MaxOverrideEdits == 2  \* clicks on the calendar of a resource in a run
MaxOverrideDates == 2  \* calendar days the clicks can fall on

NoId == 0
ScenarioIds == 1..MaxScenarios
ResourceIds == 1..MaxResources
EnvelopeIds == 1..MaxEnvelopes
Tjms == 1..MaxTjm
Dates == 1..MaxDate
Amounts == 1..MaxAmount

\* ScenarioStatus
DRAFT == "DRAFT"
MASTER == "MASTER"
ARCHIVED == "ARCHIVED"

\* OverrideValue = 0 | 0.5 | 1, counted in half days
OverrideValues == {0, 1, 2}

\* the signed-in user (user.uid)
User == "u1"

\* the rejections a store call can end with
StoreErrors == {"unavailable", "permission-denied"}

VARIABLES
    scenarios,          \* store: collection 'scenarios', id -> document
    resources,          \* store: subcollections 'resources', id -> document with its scenario
    nextScenarioId,     \* store: next generated scenario document id
    nextResourceId,     \* store: next generated resource document id
    now,                \* Date.now()
    versions,           \* hook state: Scenario[] as last delivered, sorted
    activeScenarioId,   \* hook state
    activeResources,    \* hook state: Resource[] as last delivered
    resourcesOf,        \* the scenario whose subcollection the hook is subscribed to
    isLoading,          \* hook state
    tasks,              \* asynchronous hook operations in flight
    limits,             \* what this run may create: scenario documents, resource documents, edits
    edits,              \* editing operations that have reached the store
    called,             \* the hook operation the last step invoked, "none" for a callback or continuation
    outcome,            \* how a hook operation ended, in the step it ended in
    heap,               \* the Resource objects a view holds, by reference
    computed,           \* the last call of a calendar function: its arguments and what it returned
    statsCache,         \* useResourceStats: WeakMap from a Resource reference to a stats object
    statsObjects,       \* the stats objects allocated so far, by reference
    calls,              \* the calls of getCachedResourceStats made so far and what they returned
    templates,          \* store: the calendar_templates collection, by document id
    nextTemplateId,     \* the next calendar template id the store generates
    templateOps,        \* calendarService calls awaiting the store
    listeners           \* the onSnapshot listeners registered on the scenarios collection

\* the state of the hook and of the collections it works on
hookVars == <<scenarios, resources, nextScenarioId, nextResourceId, now, versions,
              activeScenarioId, activeResources, resourcesOf, isLoading, tasks,
              limits, edits, called, outcome>>

\* the state of the calendar functions and of the stats cache
statsVars == <<heap, computed, statsCache, statsObjects, calls>>

\* the state of calendarService
templateVars == <<templates, nextTemplateId, templateOps>>

\* the state the hook never touches
aside == <<statsVars, templateVars, listeners>>

vars == <<hookVars, aside>>

\* ------------------------------------------------- scenarioService: subscription
\* sort comparator of subscribeToScenarios: drafts first, then updatedAt descending;
\* Array.sort is stable, equal keys keep the snapshot's (document id) order
Before(a, b) ==
    IF (a.status = DRAFT) # (b.status = DRAFT) THEN a.status = DRAFT
    ELSE IF a.updatedAt # b.updatedAt THEN a.updatedAt > b.updatedAt
    ELSE a.id < b.id

RECURSIVE SortScenarios(_)
SortScenarios(S) ==
    IF S = {} THEN <<>>
    ELSE LET first == CHOOSE a \in S : \A b \in S \ {a} : Before(a, b)
         IN  <<first>> \o SortScenarios(S \ {first})

\* the snapshot a scenarios listener is called with: {id: d.id, ...d.data()}, sorted
LoadedDocs ==
    SortScenarios({[id |-> i, status |-> scenarios[i].status, ownerId |-> scenarios[i].ownerId,
                    parentId |-> scenarios[i].parentId, envelopes |-> scenarios[i].envelopes,
                    updatedAt |-> scenarios[i].updatedAt]
                   : i \in {j \in DOMAIN scenarios : scenarios[j].ownerId = User}})

\* the snapshot a resources listener of scenario s is called with
LoadedResources(s) ==
    [r \in {x \in DOMAIN resources : resources[x].scenarioId = s} |->
        [tjm |-> resources[r].tjm, overrides |-> resources[r].overrides,
         dynamicHolidays |-> resources[r].dynamicHolidays]]

\* ------------------------------------------------------------ hook: derived state
\* useMemo scenario: null unless the active id is found in versions
HasScenario ==
    /\ activeScenarioId # NoId
    /\ \E i \in DOMAIN versions : versions[i].id = activeScenarioId

\* the base scenario of the memo (its resources are activeResources)
scenario == versions[CHOOSE i \in DOMAIN versions : versions[i].id = activeScenarioId]

\* an auto-select that takes the head of the list whatever its status
AutoSelectFirstListed(loading, vs, active) ==
    IF ~loading /\ Len(vs) > 0 /\ active = NoId
    THEN vs[1].id
    ELSE active

\* auto-select effect: with the list loaded and nothing active, the first draft,
\* else the first master, else the first scenario of the list
AutoSelect(loading, vs, active) ==
    IF ~loading /\ Len(vs) > 0 /\ active = NoId
    THEN IF \E i \in DOMAIN vs : vs[i].status = DRAFT
         THEN vs[CHOOSE i \in DOMAIN vs :
                    /\ vs[i].status = DRAFT
                    /\ \A j \in 1..(i - 1) : vs[j].status # DRAFT].id
         ELSE IF \E i \in DOMAIN vs : vs[i].status = MASTER
         THEN vs[CHOOSE i \in DOMAIN vs :
                    /\ vs[i].status = MASTER
                    /\ \A j \in 1..(i - 1) : vs[j].status # MASTER].id
         ELSE vs[1].id
    ELSE active

\* setActiveScenarioId(id) followed by the effects that depend on it: the resource
\* effect releases the previous listener and subscribes to the new id; activeResources
\* is emptied only when the id is null
SetActive(id) ==
    /\ activeScenarioId' = id
    /\ resourcesOf' = id
    /\ activeResources' = IF id = NoId THEN <<>> ELSE activeResources

\* how an asynchronous hook operation ended: it returned (publishScenario the id of the
\* new draft, undefined is NoId), it rethrew the store error e, or it logged e with
\* console.error and returned; phase records which await rejected
NoResult == [op |-> "none", kind |-> "none", value |-> NoId, error |-> "none", phase |-> "none"]
Returned(op, id) == [op |-> op, kind |-> "returned", value |-> id, error |-> "none", phase |-> "none"]
Threw(op, e, phase) == [op |-> op, kind |-> "threw", value |-> NoId, error |-> e, phase |-> phase]
Logged(op, e, phase) == [op |-> op, kind |-> "logged", value |-> NoId, error |-> e, phase |-> phase]

\* a listener callback or the continuation of an await ran: no operation was invoked
Callback == called' = "none" /\ outcome' = NoResult /\ UNCHANGED <<limits, edits, aside>>

\* a hook operation was invoked and has not returned to its caller yet
Call(op) == called' = op /\ outcome' = NoResult /\ UNCHANGED <<limits, edits, aside>>

\* no calendar function was called
NoCall == [op |-> "none"]

\* no view computes statistics
NoStats ==
    /\ heap = <<>>
    /\ computed = NoCall
    /\ statsCache = <<>>
    /\ statsObjects = <<>>
    /\ calls = <<>>

\* subscribeToScenarios(userId, ...): the listeners it registers with onSnapshot, each
\* with the where clauses of its query
onSnapshotScenarios(userId) ==
    {[collection |-> "scenarios", where |-> {<<"ownerId", "==", userId>>}]}

\* no calendar template exists and calendarService is not called
NoTemplates ==
    /\ templates = <<>>
    /\ nextTemplateId = 1
    /\ templateOps = {}

\* the runs explored: the versioning operations alone, or versioning with editing
Runs ==
    {[scenarios |-> MaxScenarios, resources |-> MaxResources, edits |-> 0],
     [scenarios |-> EditScenarios, resources |-> MaxResources, edits |-> MaxEdits]}

\* a new user: nothing in the store, the hook just mounted
Init ==
    /\ limits \in Runs
    /\ scenarios = <<>>
    /\ resources = <<>>
    /\ nextScenarioId = 1
    /\ nextResourceId = 1
    /\ now = 0
    /\ versions = <<>>
    /\ activeScenarioId = NoId
    /\ activeResources = <<>>
    /\ resourcesOf = NoId
    /\ isLoading = TRUE
    /\ tasks = {}
    /\ edits = 0
    /\ called = "none"
    /\ outcome = NoResult
    /\ NoStats
    /\ NoTemplates
    /\ listeners = onSnapshotScenarios(User)

\* time passes
Tick ==
    /\ now < MaxNow
    /\ now' = now + 1
    /\ Callback
    /\ UNCHANGED <<scenarios, resources, nextScenarioId, nextResourceId, versions,
                   activeScenarioId, activeResources, resourcesOf, isLoading, tasks>>

\* the scenarios listener fires: setVersions(loadedScenarios); setIsLoading(false);
\* then the auto-select effect and the resource effect run
DeliverScenarios ==
    /\ (versions # LoadedDocs \/ isLoading)
    /\ versions' = LoadedDocs
    /\ isLoading' = FALSE
    /\ SetActive(AutoSelect(FALSE, LoadedDocs, activeScenarioId))
    /\ Callback
    /\ UNCHANGED <<scenarios, resources, nextScenarioId, nextResourceId, now, tasks>>

\* the collection read once after subscribing, as with getDocs: later changes of the
\* collection are not delivered
DeliverResourcesOnce ==
    /\ resourcesOf # NoId
    /\ activeResources = <<>>
    /\ activeResources # LoadedResources(resourcesOf)
    /\ activeResources' = LoadedResources(resourcesOf)
    /\ Callback
    /\ UNCHANGED <<scenarios, resources, nextScenarioId, nextResourceId, now, versions,
                   activeScenarioId, resourcesOf, isLoading, tasks>>

\* the resources listener of the subscribed scenario fires: setActiveResources(resources)
DeliverResources ==
    /\ resourcesOf # NoId
    /\ activeResources # LoadedResources(resourcesOf)
    /\ activeResources' = LoadedResources(resourcesOf)
    /\ Callback
    /\ UNCHANGED <<scenarios, resources, nextScenarioId, nextResourceId, now, versions,
                   activeScenarioId, resourcesOf, isLoading, tasks>>

\* ------------------------------------------------------------------ tasks
\* one asynchronous operation in flight: the operation, the await it is suspended at,
\* and what its closure captured (scenario.id, the generated id, currentMasters,
\* scenario.envelopes, Date.now()) or built (the documents of the copy batch)
Task(op, pc, src, newId, masters, envelopes, at) ==
    [op |-> op, pc |-> pc, src |-> src, newId |-> newId, masters |-> masters,
     envelopes |-> envelopes, at |-> at, writes |-> <<>>]

CanStart == Cardinality(tasks) < MaxTasks

\* a collection with document id set to doc
SetDoc(coll, id, doc) ==
    [i \in DOMAIN coll \cup {id} |-> IF i = id THEN doc ELSE coll[i]]

\* ------------------------------------------------------------ scenarioService
\* createScenario: addDoc({...scenarioData, updatedAt: Date.now()})
createScenario(id, scenarioData, at) ==
    SetDoc(scenarios, id, [scenarioData EXCEPT !.updatedAt = at])

\* updateScenario: updateDoc(ref, {...updates, updatedAt: Date.now()}), updates = {envelopes};
\* updateDoc rejects when the document does not exist
updateScenario(id, envelopes) ==
    IF id \in DOMAIN scenarios
    THEN [scenarios EXCEPT ![id].envelopes = envelopes, ![id].updatedAt = now]
    ELSE scenarios

\* a batch that promotes the draft and archives the masters without creating the new draft
publishBatchWithoutDraft(draftId, userId, draftEnvelopes, currentMasters, newDraftId, at) ==
    [i \in DOMAIN scenarios |->
        IF i \in currentMasters
        THEN [scenarios[i] EXCEPT !.status = ARCHIVED, !.updatedAt = at]
        ELSE IF i = draftId
        THEN [scenarios[i] EXCEPT !.status = MASTER, !.updatedAt = at]
        ELSE scenarios[i]]

\* the batch of publishScenario, committed: every current master archived, the draft
\* promoted, the new draft created
publishBatch(draftId, userId, draftEnvelopes, currentMasters, newDraftId, at) ==
    LET archived == [i \in DOMAIN scenarios |->
                        IF i \in currentMasters
                        THEN [scenarios[i] EXCEPT !.status = ARCHIVED, !.updatedAt = at]
                        ELSE scenarios[i]]
        promoted == [archived EXCEPT ![draftId].status = MASTER, ![draftId].updatedAt = at]
    IN  SetDoc(promoted, newDraftId,
               [status |-> DRAFT, ownerId |-> userId, parentId |-> draftId,
                envelopes |-> draftEnvelopes, updatedAt |-> at])

\* ------------------------------------------------------------ hook: initializeProject
\* offered by App when nothing is loading and no scenario is composed
initializeProject ==
    /\ ~isLoading /\ ~HasScenario
    /\ CanStart /\ nextScenarioId <= limits.scenarios
    /\ isLoading' = TRUE
    /\ nextScenarioId' = nextScenarioId + 1
    /\ tasks' = tasks \cup {Task("initializeProject", "create", NoId, nextScenarioId, {}, {}, now)}
    /\ Call("initializeProject")
    /\ UNCHANGED <<scenarios, resources, nextResourceId, now, versions, activeScenarioId,
                   activeResources, resourcesOf>>

\* a fork that starts from no envelopes
createSnapshotWithoutEnvelopes ==
    /\ HasScenario
    /\ CanStart /\ nextScenarioId <= limits.scenarios
    /\ nextScenarioId' = nextScenarioId + 1
    /\ tasks' = tasks \cup {Task("createSnapshot", "create", scenario.id, nextScenarioId, {},
                                 {}, now)}
    /\ Call("createSnapshot")
    /\ UNCHANGED <<scenarios, resources, nextResourceId, now, versions, activeScenarioId,
                   activeResources, resourcesOf, isLoading>>

\* ------------------------------------------------------------ hook: createSnapshot
createSnapshot ==
    /\ HasScenario
    /\ CanStart /\ nextScenarioId <= limits.scenarios
    /\ nextScenarioId' = nextScenarioId + 1
    /\ tasks' = tasks \cup {Task("createSnapshot", "create", scenario.id, nextScenarioId, {},
                                 scenario.envelopes, now)}
    /\ Call("createSnapshot")
    /\ UNCHANGED <<scenarios, resources, nextResourceId, now, versions, activeScenarioId,
                   activeResources, resourcesOf, isLoading>>

\* await scenarioService.createScenario(...) resolves
CreateCommit(t) ==
    /\ t.pc = "create"
    /\ scenarios' = createScenario(t.newId,
                        [status |-> DRAFT, ownerId |-> User, parentId |-> t.src,
                         envelopes |-> t.envelopes, updatedAt |-> t.at], t.at)
    /\ called' = "none" /\ UNCHANGED <<limits, edits, aside>>
    /\ outcome' = IF t.op = "initializeProject" THEN Returned(t.op, NoId) ELSE NoResult
    /\ IF t.op = "initializeProject"
       THEN /\ SetActive(t.newId)
            /\ isLoading' = FALSE
            /\ tasks' = tasks \ {t}
       ELSE /\ tasks' = (tasks \ {t}) \cup {[t EXCEPT !.pc = "getResources"]}
            /\ UNCHANGED <<activeScenarioId, activeResources, resourcesOf, isLoading>>
    /\ UNCHANGED <<resources, nextScenarioId, nextResourceId, now, versions>>

\* await scenarioService.createScenario(...) rejects: initializeProject rethrows after
\* setIsLoading(false), createSnapshot logs the error
CreateFail(t, e) ==
    /\ t.pc = "create"
    /\ tasks' = tasks \ {t}
    /\ isLoading' = IF t.op = "initializeProject" THEN FALSE ELSE isLoading
    /\ SetActive(AutoSelect(isLoading', versions, activeScenarioId))
    /\ called' = "none" /\ UNCHANGED <<limits, edits, aside>>
    /\ outcome' = IF t.op = "initializeProject" THEN Threw(t.op, e, "create")
                  ELSE Logged(t.op, e, "create")
    /\ UNCHANGED <<scenarios, resources, nextScenarioId, nextResourceId, now, versions>>

\* ------------------------------------------------------------ hook: restoreSnapshot
\* a restore that also makes the restored scenario a draft again
restoreSnapshotAsDraft(snapshotId) ==
    /\ snapshotId # activeScenarioId
    /\ SetActive(snapshotId)
    /\ Call("restoreSnapshot")
    /\ scenarios' = [scenarios EXCEPT ![snapshotId].status = DRAFT]
    /\ UNCHANGED <<resources, nextScenarioId, nextResourceId, now, versions,
                   isLoading, tasks>>

restoreSnapshot(snapshotId) ==
    /\ snapshotId # activeScenarioId
    /\ SetActive(snapshotId)
    /\ Call("restoreSnapshot")
    /\ UNCHANGED <<scenarios, resources, nextScenarioId, nextResourceId, now, versions,
                   isLoading, tasks>>

\* ------------------------------------------------------------ hook: publishScenario
\* invoked with no scenario composed or on a scenario that is not a draft: returns
\* undefined; otherwise computes currentMasters from versions and submits the batch
publishScenario ==
    /\ called' = "publishScenario" /\ UNCHANGED <<limits, edits, aside>>
    /\ IF ~HasScenario \/ scenario.status # DRAFT
       THEN /\ outcome' = Returned("publishScenario", NoId)
            /\ UNCHANGED <<nextScenarioId, tasks>>
       ELSE /\ CanStart /\ nextScenarioId <= limits.scenarios
            /\ nextScenarioId' = nextScenarioId + 1
            /\ tasks' = tasks \cup
                 {Task("publishScenario", "batch", scenario.id, nextScenarioId,
                       {versions[i].id : i \in {j \in DOMAIN versions : versions[j].status = MASTER}},
                       scenario.envelopes, now)}
            /\ outcome' = NoResult
    /\ UNCHANGED <<scenarios, resources, nextResourceId, now, versions, activeScenarioId,
                   activeResources, resourcesOf, isLoading>>

\* await batch.commit() of scenarioService.publishScenario resolves
PublishCommit(t) ==
    /\ t.pc = "batch"
    /\ scenarios' = publishBatch(t.src, User, t.envelopes, t.masters, t.newId, t.at)
    /\ tasks' = (tasks \ {t}) \cup {[t EXCEPT !.pc = "getResources"]}
    /\ Callback
    /\ UNCHANGED <<resources, nextScenarioId, nextResourceId, now, versions, activeScenarioId,
                   activeResources, resourcesOf, isLoading>>

\* await batch.commit() rejects: nothing of the batch is applied, the error is rethrown
PublishFail(t, e) ==
    /\ t.pc = "batch"
    /\ tasks' = tasks \ {t}
    /\ outcome' = Threw("publishScenario", e, "batch")
    /\ called' = "none" /\ UNCHANGED <<limits, edits, aside>>
    /\ UNCHANGED <<scenarios, resources, nextScenarioId, nextResourceId, now, versions,
                   activeScenarioId, activeResources, resourcesOf, isLoading>>

\* ------------------------------------------------------------ resourceService.copyResources
\* a batch that keeps the ids of the resources read
CopyBatchKeepingIds(read, firstId) ==
    read

\* the documents of the copy batch: one per resource read, its id stripped, under a
\* newly generated id
CopyBatch(read, firstId) ==
    [n \in {firstId + Cardinality({y \in DOMAIN read : y < x}) : x \in DOMAIN read} |->
        read[CHOOSE x \in DOMAIN read : firstId + Cardinality({y \in DOMAIN read : y < x}) = n]]

\* await getResources(source) resolves; the batch is built
CopyGetResources(t) ==
    /\ t.pc = "getResources"
    /\ LET read == LoadedResources(t.src) IN
        /\ nextResourceId + Cardinality(DOMAIN read) <= limits.resources + 1
        /\ nextResourceId' = nextResourceId + Cardinality(DOMAIN read)
        /\ tasks' = (tasks \ {t}) \cup
                {[t EXCEPT !.pc = "copyCommit", !.writes = CopyBatch(read, nextResourceId)]}
    /\ Callback
    /\ UNCHANGED <<scenarios, resources, nextScenarioId, now, versions, activeScenarioId,
                   activeResources, resourcesOf, isLoading>>

\* a copy that sets the documents one by one and stops after the first
copyResourcesOneByOne(targetScenarioId, writes) ==
    [r \in DOMAIN resources \cup {x \in DOMAIN writes : \A y \in DOMAIN writes : x <= y} |->
        IF r \in DOMAIN writes
        THEN [scenarioId |-> targetScenarioId, tjm |-> writes[r].tjm,
              overrides |-> writes[r].overrides,
              dynamicHolidays |-> writes[r].dynamicHolidays]
        ELSE resources[r]]

\* the target's subcollection after the copy batch is committed
copyResources(targetScenarioId, writes) ==
    [r \in DOMAIN resources \cup DOMAIN writes |->
        IF r \in DOMAIN writes
        THEN [scenarioId |-> targetScenarioId, tjm |-> writes[r].tjm,
              overrides |-> writes[r].overrides,
              dynamicHolidays |-> writes[r].dynamicHolidays]
        ELSE resources[r]]

\* await batch.commit() of copyResources resolves; the caller switches to the new draft
\* (and publishScenario returns its id)
CopyCommit(t) ==
    /\ t.pc = "copyCommit"
    /\ resources' = copyResources(t.newId, t.writes)
    /\ tasks' = tasks \ {t}
    /\ SetActive(t.newId)
    /\ outcome' = Returned(t.op, IF t.op = "publishScenario" THEN t.newId ELSE NoId)
    /\ called' = "none" /\ UNCHANGED <<limits, edits, aside>>
    /\ UNCHANGED <<scenarios, nextScenarioId, nextResourceId, now, versions, isLoading>>

\* a failed copy that undoes the batch: the new draft removed, the draft a DRAFT again
CopyFailUndoing(t, e) ==
    /\ t.pc \in {"getResources", "copyCommit"}
    /\ tasks' = tasks \ {t}
    /\ outcome' = IF t.op = "publishScenario" THEN Threw(t.op, e, "copy") ELSE Logged(t.op, e, "copy")
    /\ called' = "none" /\ UNCHANGED <<limits, edits, aside>>
    /\ scenarios' = IF t.op = "publishScenario"
                    THEN [i \in DOMAIN scenarios \ {t.newId} |->
                            IF i = t.src THEN [scenarios[i] EXCEPT !.status = DRAFT]
                            ELSE scenarios[i]]
                    ELSE scenarios
    /\ UNCHANGED <<resources, nextScenarioId, nextResourceId, now, versions,
                   activeScenarioId, activeResources, resourcesOf, isLoading>>

\* getResources or the copy batch rejects: publishScenario rethrows the error,
\* createSnapshot logs it
CopyFail(t, e) ==
    /\ t.pc \in {"getResources", "copyCommit"}
    /\ tasks' = tasks \ {t}
    /\ outcome' = IF t.op = "publishScenario" THEN Threw(t.op, e, "copy") ELSE Logged(t.op, e, "copy")
    /\ called' = "none" /\ UNCHANGED <<limits, edits, aside>>
    /\ UNCHANGED <<scenarios, resources, nextScenarioId, nextResourceId, now, versions,
                   activeScenarioId, activeResources, resourcesOf, isLoading>>

\* ------------------------------------------------------------ resourceService: writes
\* addDoc(resourcesRef, resource)
addResourceDoc(scenarioId, id, data) ==
    SetDoc(resources, id, [scenarioId |-> scenarioId, tjm |-> data.tjm,
                           overrides |-> data.overrides,
                           dynamicHolidays |-> data.dynamicHolidays])

\* the document scenarios/{scenarioId}/resources/{resourceId} exists
ResourceExists(scenarioId, resourceId) ==
    resourceId \in DOMAIN resources /\ resources[resourceId].scenarioId = scenarioId

\* updateResource with updates = {tjm}: updateDoc rejects when the document does not exist
updateResourceTjm(scenarioId, resourceId, tjm) ==
    IF ResourceExists(scenarioId, resourceId)
    THEN [resources EXCEPT ![resourceId].tjm = tjm]
    ELSE resources

\* updateResource with updates = {overrides, dynamicHolidays}
updateResourceCalendar(scenarioId, resourceId, overrides, dynamicHolidays) ==
    IF ResourceExists(scenarioId, resourceId)
    THEN [resources EXCEPT ![resourceId].overrides = overrides,
                           ![resourceId].dynamicHolidays = dynamicHolidays]
    ELSE resources

\* deleteDoc(docRef)
deleteResourceDoc(scenarioId, resourceId) ==
    [r \in {x \in DOMAIN resources : ~ResourceExists(scenarioId, x) \/ x # resourceId} |->
        resources[r]]

\* value === undefined
Undefined == -1

\* {...overrides}, then for each date: delete newOverrides[date] when the value is
\* undefined, newOverrides[date] = value otherwise
WithOverrides(overrides, dates, value) ==
    IF value = Undefined
    THEN [d \in DOMAIN overrides \ dates |-> overrides[d]]
    ELSE [d \in DOMAIN overrides \cup dates |-> IF d \in dates THEN value ELSE overrides[d]]

\* ------------------------------------------------------------ hook: editing operations
\* a guard that only checks that a scenario is composed
checkMutationAllowedAnyStatus ==
    HasScenario

\* checkMutationAllowed(): a scenario is composed and it is a draft
checkMutationAllowed ==
    /\ HasScenario
    /\ scenario.status = DRAFT

\* what every editing operation leaves alone
EditFrame ==
    /\ called' = "edit" /\ outcome' = NoResult
    /\ edits' = IF checkMutationAllowed THEN edits + 1 ELSE edits
    /\ edits' <= limits.edits
    /\ UNCHANGED <<limits, aside>>
    /\ UNCHANGED <<nextScenarioId, now, versions, activeScenarioId, activeResources,
                   resourcesOf, isLoading, tasks>>

addEnvelope(envelope) ==
    /\ EditFrame
    /\ scenarios' = IF checkMutationAllowed
                    THEN updateScenario(scenario.id, scenario.envelopes \cup {envelope})
                    ELSE scenarios
    /\ UNCHANGED <<resources, nextResourceId>>

updateEnvelope(id, amount) ==
    /\ EditFrame
    /\ scenarios' = IF checkMutationAllowed
                    THEN updateScenario(scenario.id,
                            {IF e.id = id THEN [e EXCEPT !.amount = amount] ELSE e
                             : e \in scenario.envelopes})
                    ELSE scenarios
    /\ UNCHANGED <<resources, nextResourceId>>

deleteEnvelope(id) ==
    /\ EditFrame
    /\ scenarios' = IF checkMutationAllowed
                    THEN updateScenario(scenario.id, {e \in scenario.envelopes : e.id # id})
                    ELSE scenarios
    /\ UNCHANGED <<resources, nextResourceId>>

addResource(data) ==
    /\ EditFrame
    /\ nextResourceId <= limits.resources
    /\ IF checkMutationAllowed
       THEN /\ resources' = addResourceDoc(scenario.id, nextResourceId, data)
            /\ nextResourceId' = nextResourceId + 1
       ELSE UNCHANGED <<resources, nextResourceId>>
    /\ UNCHANGED scenarios

updateResource(id, tjm) ==
    /\ EditFrame
    /\ resources' = IF checkMutationAllowed
                    THEN updateResourceTjm(scenario.id, id, tjm)
                    ELSE resources
    /\ UNCHANGED <<scenarios, nextResourceId>>

deleteResource(id) ==
    /\ EditFrame
    /\ resources' = IF checkMutationAllowed
                    THEN deleteResourceDoc(scenario.id, id)
                    ELSE resources
    /\ UNCHANGED <<scenarios, nextResourceId>>

\* scenario.resources.find(r => r.id === resourceId) succeeded
Found(resourceId) == resourceId \in DOMAIN activeResources

updateResourceOverride(resourceId, date, value) ==
    /\ EditFrame
    /\ resources' = IF checkMutationAllowed /\ Found(resourceId)
                    THEN updateResourceCalendar(scenario.id, resourceId,
                            WithOverrides(activeResources[resourceId].overrides, {date}, value),
                            IF ResourceExists(scenario.id, resourceId)
                            THEN resources[resourceId].dynamicHolidays ELSE {})
                    ELSE resources
    /\ UNCHANGED <<scenarios, nextResourceId>>

bulkUpdateResourceOverrides(resourceId, startDate, endDate, value) ==
    /\ EditFrame
    /\ resources' = IF checkMutationAllowed /\ Found(resourceId)
                    THEN updateResourceCalendar(scenario.id, resourceId,
                            WithOverrides(activeResources[resourceId].overrides,
                                          startDate..endDate, value),
                            IF ResourceExists(scenario.id, resourceId)
                            THEN resources[resourceId].dynamicHolidays ELSE {})
                    ELSE resources
    /\ UNCHANGED <<scenarios, nextResourceId>>

applyResourceHolidays(resourceId, externalHolidays) ==
    /\ EditFrame
    /\ resources' = IF checkMutationAllowed /\ Found(resourceId)
                    THEN updateResourceCalendar(scenario.id, resourceId,
                            WithOverrides(activeResources[resourceId].overrides,
                                          externalHolidays, 0),
                            activeResources[resourceId].dynamicHolidays \cup externalHolidays)
                    ELSE resources
    /\ UNCHANGED <<scenarios, nextResourceId>>

\* ------------------------------------------------------------ specification
\* the values the forms and the calendar of the views submit
NewResources == [tjm : Tjms, overrides : {<<>>}, dynamicHolidays : {{}}]

Edit ==
    \/ \E id \in EnvelopeIds, a \in Amounts :
            /\ HasScenario => id \notin {e.id : e \in scenario.envelopes}
            /\ addEnvelope([id |-> id, amount |-> a])
    \/ \E id \in EnvelopeIds, a \in Amounts : updateEnvelope(id, a)
    \/ \E id \in EnvelopeIds : deleteEnvelope(id)
    \/ \E data \in NewResources : addResource(data)
    \/ \E id \in DOMAIN activeResources, tjm \in Tjms : updateResource(id, tjm)
    \/ \E id \in DOMAIN activeResources : deleteResource(id)
    \/ \E id \in DOMAIN activeResources, d \in Dates, v \in OverrideValues \cup {Undefined} :
            updateResourceOverride(id, d, v)
    \/ \E id \in DOMAIN activeResources, d1 \in Dates, d2 \in Dates,
          v \in OverrideValues \cup {Undefined} :
            d1 <= d2 /\ bulkUpdateResourceOverrides(id, d1, d2, v)
    \/ \E id \in DOMAIN activeResources, hs \in SUBSET Dates :
            applyResourceHolidays(id, hs)

Next ==
    \/ DeliverScenarios
    \/ DeliverResources
    \/ initializeProject
    \/ createSnapshot
    \/ \E id \in {versions[i].id : i \in DOMAIN versions} : restoreSnapshot(id)
    \/ publishScenario
    \/ Edit
    \/ \E t \in tasks :
            \/ CreateCommit(t)
            \/ \E e \in StoreErrors : CreateFail(t, e)
            \/ PublishCommit(t)
            \/ \E e \in StoreErrors : PublishFail(t, e)
            \/ CopyGetResources(t)
            \/ CopyCommit(t)
            \/ \E e \in StoreErrors : CopyFail(t, e)

Spec == Init /\ [][Next]_vars

\* the same with the clock advancing between steps
NextTimed == Next \/ Tick

SpecTimed == Init /\ [][NextTimed]_vars

\* ------------------------------------------------------------ SimulationView
\* handlePublishConfirm: what the user is told once onPublish() has settled
handlePublishConfirm(result) ==
    IF result.kind = "threw"
    THEN [toast |-> "error", message |-> "Erreur lors de la publication."]
    ELSE [toast |-> "success", message |-> "Publication reussie ! Le MASTER a ete mis a jour."]

\* ------------------------------------------------------------ a project already built
\* the override maps and the resources a user can have entered; holidays are imported
\* during the run
OverrideMaps == UNION {[S -> OverrideValues] : S \in SUBSET Dates}

EnteredResources == [tjm : Tjms, overrides : OverrideMaps, dynamicHolidays : {{}}]

\* the user's project holds one draft with up to two resources, all of it loaded
InitProject ==
    /\ limits = [scenarios |-> ProjectScenarios, resources |-> MaxResources, edits |-> MaxEdits]
    /\ scenarios = SetDoc(<<>>, 1, [status |-> DRAFT, ownerId |-> User, parentId |-> NoId,
                                    envelopes |-> {}, updatedAt |-> 0])
    /\ \E n \in 0..2 : \E entered \in [1..n -> EnteredResources] :
            /\ resources = [r \in 1..n |->
                                [scenarioId |-> 1, tjm |-> entered[r].tjm,
                                 overrides |-> entered[r].overrides,
                                 dynamicHolidays |-> entered[r].dynamicHolidays]]
            /\ nextResourceId = n + 1
    /\ nextScenarioId = 2
    /\ now = 0
    /\ versions = LoadedDocs
    /\ activeScenarioId = 1
    /\ activeResources = LoadedResources(1)
    /\ resourcesOf = 1
    /\ isLoading = FALSE
    /\ tasks = {}
    /\ edits = 0
    /\ called = "none"
    /\ outcome = NoResult
    /\ NoStats
    /\ NoTemplates
    /\ listeners = onSnapshotScenarios(User)

\* the operations offered while the project exists
NextProject ==
    \/ DeliverScenarios
    \/ DeliverResources
    \/ createSnapshot
    \/ \E id \in {versions[i].id : i \in DOMAIN versions} : restoreSnapshot(id)
    \/ publishScenario
    \/ Edit
    \/ \E t \in tasks :
            \/ CreateCommit(t)
            \/ \E e \in StoreErrors : CreateFail(t, e)
            \/ PublishCommit(t)
            \/ \E e \in StoreErrors : PublishFail(t, e)
            \/ CopyGetResources(t)
            \/ CopyCommit(t)
            \/ \E e \in StoreErrors : CopyFail(t, e)

SpecProject == InitProject /\ [][NextProject]_vars

\* ------------------------------------------------------------ publish: the batch
\* C1: when the batch of a publish of D commits, D being a DRAFT in the store, every
\* scenario that was MASTER before is ARCHIVED, D is MASTER, and exactly one scenario is
\* new: a DRAFT with parentId D, owned by the user, with D's envelopes; with no prior
\* master nothing but D and the new draft is written
PublishInvariant ==
    [][\A t \in tasks :
         (/\ t.op = "publishScenario" /\ t.pc = "batch"
          /\ [t EXCEPT !.pc = "getResources"] \in tasks'
          /\ scenarios[t.src].status = DRAFT)
         => LET D == t.src
                before == {i \in DOMAIN scenarios : scenarios[i].status = MASTER}
                new == DOMAIN scenarios' \ DOMAIN scenarios
            IN  /\ \A m \in before : scenarios'[m].status = ARCHIVED
                /\ scenarios'[D].status = MASTER
                /\ Cardinality(new) = 1
                /\ \A n \in new : /\ scenarios'[n].status = DRAFT
                                  /\ scenarios'[n].parentId = D
                                  /\ scenarios'[n].ownerId = User
                                  /\ scenarios'[n].envelopes = scenarios[D].envelopes
                /\ before = {} =>
                      \A i \in DOMAIN scenarios \ {D} : scenarios'[i] = scenarios[i]
      ]_vars

\* C2: in every reachable state at most one scenario of the store has status MASTER
AtMostOneMaster ==
    Cardinality({i \in DOMAIN scenarios : scenarios[i].status = MASTER}) <= 1

\* C3: the writes of a publish are one atomic batch: a rejected commit changes no scenario,
\* and a step that changes a status or creates the draft of a publish is the whole batch
\* of one publish (its masters archived, its draft promoted, its new draft created), so
\* that every scenario that is no longer a DRAFT has a child
PublishAtomic ==
    /\ [](\A i \in DOMAIN scenarios :
            scenarios[i].status # DRAFT =>
                \E n \in DOMAIN scenarios : scenarios[n].parentId = i)
    /\ [][/\ outcome'.phase = "batch" => scenarios' = scenarios
          /\ LET changed == {i \in DOMAIN scenarios :
                                scenarios'[i].status # scenarios[i].status}
                 new == DOMAIN scenarios' \ DOMAIN scenarios
             IN  (changed # {} \/ \E t \in tasks : t.op = "publishScenario" /\ t.newId \in new)
                 => \E t \in tasks :
                        /\ t.op = "publishScenario" /\ t.pc = "batch"
                        /\ new = {t.newId}
                        /\ scenarios'[t.newId].parentId = t.src
                        /\ scenarios'[t.src].status = MASTER
                        /\ \A m \in t.masters : scenarios'[m].status = ARCHIVED
                        /\ changed \subseteq t.masters \cup {t.src}
      ]_vars

\* a publish batch has committed: its draft is promoted and its new draft exists
PublishCommitted ==
    \E t \in tasks :
        /\ t.op = "publishScenario" /\ t.pc = "getResources"
        /\ t.masters # {}
        /\ scenarios[t.src].status = MASTER
        /\ t.newId \in DOMAIN scenarios

\* ------------------------------------------------------------ the mutation guard
\* C4: an editing operation never changes a scenario, or a resource of a scenario, whose
\* status in the store is not DRAFT at the moment of the write
EditsOnlyStoreDrafts ==
    [][called' = "edit" =>
          /\ \A i \in DOMAIN scenarios :
                scenarios'[i] # scenarios[i] => scenarios[i].status = DRAFT
          /\ \A r \in DOMAIN resources \cup DOMAIN resources' :
                (r \notin DOMAIN resources \/ r \notin DOMAIN resources'
                    \/ resources'[r] # resources[r])
                => LET owner == IF r \in DOMAIN resources THEN resources[r].scenarioId
                                ELSE resources'[r].scenarioId
                   IN  scenarios[owner].status = DRAFT
      ]_vars

\* C5: an editing operation invoked while the hook's active scenario is MASTER or ARCHIVED,
\* or while no scenario is composed, changes no scenario and no resource
RejectedEditsWriteNothing ==
    [][(/\ called' = "edit"
        /\ ~(/\ activeScenarioId # NoId
             /\ \E i \in DOMAIN versions :
                    versions[i].id = activeScenarioId /\ versions[i].status = DRAFT))
       => UNCHANGED <<scenarios, resources, nextResourceId>>
      ]_vars

\* an editing operation has just been invoked on an active scenario that is not a draft
EditRejected ==
    /\ called = "edit"
    /\ HasScenario
    /\ scenario.status \in {MASTER, ARCHIVED}

\* ------------------------------------------------------------ status transitions
\* C6: the status of a scenario only changes from DRAFT to MASTER or from MASTER to
\* ARCHIVED, and publishScenario invoked on a scenario that is not a DRAFT starts nothing
\* and writes nothing
StatusTransitions ==
    [][/\ \A i \in DOMAIN scenarios :
            \/ scenarios'[i].status = scenarios[i].status
            \/ scenarios[i].status = DRAFT /\ scenarios'[i].status = MASTER
            \/ scenarios[i].status = MASTER /\ scenarios'[i].status = ARCHIVED
       /\ (/\ called' = "publishScenario"
           /\ ~(/\ activeScenarioId # NoId
                /\ \E i \in DOMAIN versions :
                       versions[i].id = activeScenarioId /\ versions[i].status = DRAFT))
          => UNCHANGED <<scenarios, resources, tasks>>
      ]_vars

\* ------------------------------------------------------------ publish: the copy
\* C7: when the copy of a publish fails after its batch has committed, publishScenario
\* throws the store's error, the step changes no scenario and no resource, and the new
\* draft still exists as a child of the published scenario, which is no longer a DRAFT
CopyFailureKeepsPublish ==
    [][(outcome'.op = "publishScenario" /\ outcome'.phase = "copy")
       => /\ outcome'.kind = "threw"
          /\ outcome'.error \in StoreErrors
          /\ UNCHANGED <<scenarios, resources>>
          /\ \E t \in tasks \ tasks' :
                /\ t.newId \in DOMAIN scenarios'
                /\ scenarios'[t.newId].parentId = t.src
                /\ scenarios'[t.src].status # DRAFT
      ]_vars

\* the copy of a publish has just failed
CopyFailed ==
    /\ outcome.op = "publishScenario"
    /\ outcome.phase = "copy"
    /\ \E i \in DOMAIN scenarios : scenarios[i].status = ARCHIVED

\* C8: what the caller of publishScenario gets when the copy fails (the settled promise and
\* the message shown for it) differs from what it gets when the batch fails
CopyFailureDistinguishable ==
    (outcome.op = "publishScenario" /\ outcome.phase = "copy")
    => \A e \in StoreErrors :
          LET batch == Threw("publishScenario", e, "batch")
          IN  <<outcome.kind, outcome.value, outcome.error, handlePublishConfirm(outcome)>>
              # <<batch.kind, batch.value, batch.error, handlePublishConfirm(batch)>>

\* C9: when the batch and the copy of a publish have both succeeded, publishScenario
\* returns the id of the draft the batch created, that scenario becomes the active one,
\* and it is a DRAFT
PublishReturnsNewDraft ==
    [][(/\ outcome'.op = "publishScenario" /\ outcome'.kind = "returned"
        /\ called' = "none")
       => \E t \in tasks \ tasks' :
             /\ outcome'.value = t.newId
             /\ activeScenarioId' = t.newId
             /\ t.newId \in DOMAIN scenarios'
             /\ scenarios'[t.newId].parentId = t.src
             /\ scenarios'[t.newId].status = DRAFT
      ]_vars

\* ------------------------------------------------------------ copyResources
\* C10: copyResources(A, B): the batch built from the resources read from A holds one
\* document per resource, with that resource's field values and under an id no resource
\* has; committed into an empty B it leaves B with exactly these documents, A's
\* collection and every other resource unchanged, and no id of B is an id of A
CopyComplete ==
    [][\A t \in tasks :
          /\ (t.pc = "getResources" /\ \E u \in tasks' : u.newId = t.newId /\ u.pc = "copyCommit")
             => LET u == CHOOSE u \in tasks' : u.newId = t.newId
                    A == {r \in DOMAIN resources : resources[r].scenarioId = t.src}
                IN  /\ Cardinality(DOMAIN u.writes) = Cardinality(A)
                    /\ DOMAIN u.writes \cap DOMAIN resources = {}
                    /\ \E f \in [DOMAIN u.writes -> A] :
                          /\ \A x, y \in DOMAIN u.writes : f[x] = f[y] => x = y
                          /\ \A x \in DOMAIN u.writes :
                                /\ u.writes[x].tjm = resources[f[x]].tjm
                                /\ u.writes[x].overrides = resources[f[x]].overrides
                                /\ u.writes[x].dynamicHolidays = resources[f[x]].dynamicHolidays
          /\ (/\ t.pc = "copyCommit" /\ t \notin tasks' /\ outcome'.kind = "returned"
              /\ {r \in DOMAIN resources : resources[r].scenarioId = t.newId} = {})
             => LET B == {r \in DOMAIN resources' : resources'[r].scenarioId = t.newId}
                    A == {r \in DOMAIN resources' : resources'[r].scenarioId = t.src}
                IN  /\ B = DOMAIN t.writes
                    /\ \A r \in B :
                          /\ resources'[r].tjm = t.writes[r].tjm
                          /\ resources'[r].overrides = t.writes[r].overrides
                          /\ resources'[r].dynamicHolidays = t.writes[r].dynamicHolidays
                    /\ B \cap A = {}
                    /\ \A r \in DOMAIN resources : r \in DOMAIN resources' /\ resources'[r] = resources[r]
                    /\ DOMAIN resources' \ DOMAIN resources = B
      ]_vars

\* a copy of two resources that differ has just completed
CopiedTwo ==
    /\ outcome.kind = "returned"
    /\ outcome.op \in {"publishScenario", "createSnapshot"}
    /\ LET B == {r \in DOMAIN resources : resources[r].scenarioId = activeScenarioId}
       IN  /\ Cardinality(B) = 2
           /\ \E x, y \in B : resources[x].tjm # resources[y].tjm

\* C11: copyResources is all-or-nothing: while the copy batch of N documents is in
\* flight none of them is in the store, and the step that ends the operation leaves
\* either all N of them in the store (it resolved) or none (it rejected); no step
\* leaves between 1 and N-1 of them
CopyAllOrNothing ==
    [][\A t \in tasks :
          t.pc = "copyCommit"
          => LET seen == DOMAIN t.writes \cap DOMAIN resources' IN
              /\ DOMAIN t.writes \cap DOMAIN resources = {}
              /\ seen = {} \/ seen = DOMAIN t.writes
              /\ t \in tasks' => seen = {}
              /\ (t \notin tasks' /\ outcome'.kind = "returned")
                 => /\ seen = DOMAIN t.writes
                    /\ \A r \in seen : resources'[r].scenarioId = t.newId
              /\ (t \notin tasks' /\ outcome'.kind \in {"threw", "logged"})
                 => seen = {} /\ resources' = resources
      ]_vars

\* the copy batch of two resources was rejected: the two ids it generated are not in
\* the store
CopyOfTwoRejected ==
    /\ outcome.kind \in {"threw", "logged"} /\ outcome.phase = "copy"
    /\ \E s \in DOMAIN scenarios :
          Cardinality({r \in DOMAIN resources : resources[r].scenarioId = s}) = 2
    /\ nextResourceId > 4
    /\ {nextResourceId - 1, nextResourceId - 2} \cap DOMAIN resources = {}

\* ------------------------------------------------------------ createSnapshot
\* the field values of the documents docs, as a bag
Values(docs) ==
    LET value(r) == [tjm |-> docs[r].tjm, overrides |-> docs[r].overrides,
                     dynamicHolidays |-> docs[r].dynamicHolidays]
    IN  [v \in {value(r) : r \in DOMAIN docs} |->
            Cardinality({r \in DOMAIN docs : value(r) = v})]

\* the field values of the resources of scenario s in the collection coll
Collection(coll, s) ==
    Values([r \in {x \in DOMAIN coll : coll[x].scenarioId = s} |-> coll[r]])

\* C12: createSnapshot of the active scenario S, of any status: the call takes S's id
\* and S's envelopes and writes nothing; the scenario it then creates is a DRAFT with
\* parentId = S.id and these envelopes; the copy it then commits gives the new scenario
\* a resource collection with the field values of S's; and none of these steps changes
\* any other scenario document (S's status and envelopes included) or S's resources
SnapshotForks ==
    [][/\ called' = "createSnapshot"
          => /\ scenarios' = scenarios /\ resources' = resources
             /\ \E t \in tasks' \ tasks :
                   /\ t.op = "createSnapshot" /\ t.pc = "create"
                   /\ t.src = scenario.id /\ t.envelopes = scenario.envelopes
                   /\ t.newId \notin DOMAIN scenarios
       /\ \A t \in tasks :
           t.op = "createSnapshot"
           => /\ (t.pc = "create" /\ t.newId \in DOMAIN scenarios')
                 => /\ scenarios'[t.newId].status = DRAFT
                    /\ scenarios'[t.newId].parentId = t.src
                    /\ scenarios'[t.newId].envelopes = t.envelopes
                    /\ \A i \in DOMAIN scenarios : scenarios'[i] = scenarios[i]
                    /\ resources' = resources
              /\ (t.pc = "copyCommit" /\ t \notin tasks' /\ outcome'.kind = "returned")
                 => /\ DOMAIN resources' \ DOMAIN resources = DOMAIN t.writes
                    /\ \A r \in DOMAIN t.writes : resources'[r].scenarioId = t.newId
                    /\ Values([r \in DOMAIN t.writes |-> resources'[r]]) = Values(t.writes)
                    /\ Collection(resources', t.src) = Collection(resources, t.src)
                    /\ \A r \in DOMAIN resources : resources'[r] = resources[r]
                    /\ scenarios' = scenarios
              /\ (t.pc = "getResources" /\ \E u \in tasks' : u.newId = t.newId /\ u.pc = "copyCommit")
                 => LET u == CHOOSE u \in tasks' : u.newId = t.newId
                    IN  /\ Values(u.writes) = Collection(resources, t.src)
                        /\ scenarios' = scenarios /\ resources' = resources
      ]_vars

\* a fork of a scenario that is not a draft and has resources has completed: the new
\* draft has the source's envelopes and a copy of its resources
ForkedNonDraft ==
    /\ outcome.op = "createSnapshot" /\ outcome.kind = "returned"
    /\ activeScenarioId \in DOMAIN scenarios
    /\ LET n == scenarios[activeScenarioId] IN
        /\ n.status = DRAFT
        /\ n.parentId \in DOMAIN scenarios
        /\ scenarios[n.parentId].status # DRAFT
        /\ n.envelopes = scenarios[n.parentId].envelopes
        /\ Collection(resources, activeScenarioId) # <<>>
        /\ Collection(resources, activeScenarioId) = Collection(resources, n.parentId)

\* ------------------------------------------------------------ restoreSnapshot
\* C13: restoreSnapshot(id) only changes which scenario is active: the step writes no
\* scenario and no resource, starts no store operation and leaves the list as it is,
\* whatever the status of the target; after it the mutation guard passes exactly when
\* the restored scenario is listed as a DRAFT, and an edit that follows changes the
\* store only in that case
RestoreOnlySwitches ==
    [][/\ called' = "restoreSnapshot"
          => /\ scenarios' = scenarios /\ resources' = resources
             /\ tasks' = tasks /\ versions' = versions
             /\ nextScenarioId' = nextScenarioId /\ nextResourceId' = nextResourceId
             /\ activeScenarioId' \in {versions[i].id : i \in DOMAIN versions}
             /\ checkMutationAllowed'
                <=> \E i \in DOMAIN versions :
                       versions[i].id = activeScenarioId' /\ versions[i].status = DRAFT
       /\ (called = "restoreSnapshot" /\ called' = "edit"
              /\ (scenarios' # scenarios \/ resources' # resources))
          => \E i \in DOMAIN versions :
                versions[i].id = activeScenarioId /\ versions[i].status = DRAFT
      ]_vars

\* an archived scenario has just been restored: it is active, still archived, and the
\* mutation guard rejects
RestoredArchived ==
    /\ called = "restoreSnapshot"
    /\ HasScenario
    /\ scenario.status = ARCHIVED
    /\ scenarios[activeScenarioId].status = ARCHIVED
    /\ ~checkMutationAllowed

\* ============================================================ the calendar
\* Dates are day numbers: day 1 is the first day of year 1, a 'yyyy-MM-dd' string
\* compares as its day number does, and an empty date string is NoDate. Years and
\* months are short so that every case fits in a few days. Presence is counted in
\* half days: 0, 1 (0.5) and 2 (1).
YearLen == 4           \* days of a year
MonthLen == 2          \* days of a month
FirstWeekday == 4      \* day 1 is a Thursday (1 is Monday)
FullDay == 2           \* the value 1 in half days
NoDate == 0            \* '' (falsy)

Days == 1..(MaxYears * YearLen)
Years == 1..MaxYears
MonthsPerYear == (YearLen + MonthLen - 1) \div MonthLen
Months == 0..(MonthsPerYear - 1)
Countries == {"FR", "PT"}

\* constants.HOLIDAYS: the static holidays of each country; FR has a holiday on a
\* Friday, one on a Saturday and one on a Tuesday, PT has none
HOLIDAYS == [FR |-> {2, 3, 6} \cap Days, PT |-> {}]

\* date-fns
isWeekend(date) == ((date + FirstWeekday - 2) % 7) + 1 \in {6, 7}
startOfYear(year) == (year - 1) * YearLen + 1
endOfYear(year) == year * YearLen
startOfMonth(year, monthIndex) == startOfYear(year) + monthIndex * MonthLen
endOfMonth(year, monthIndex) ==
    IF startOfMonth(year, monthIndex) + MonthLen - 1 < endOfYear(year)
    THEN startOfMonth(year, monthIndex) + MonthLen - 1
    ELSE endOfYear(year)
eachDayOfInterval(start, end) == [i \in 1..(end - start + 1) |-> start + i - 1]

\* total += val over the entries of a list
RECURSIVE Sum(_)
Sum(f) ==
    IF DOMAIN f = {} THEN 0
    ELSE LET x == CHOOSE x \in DOMAIN f : TRUE
         IN  f[x] + Sum([y \in DOMAIN f \ {x} |-> f[y]])

\* a day status that keeps the overridden or default value outside the contract
calculateDayStatusUnbounded(date, resource) ==
    LET start == IF resource.startDate = NoDate THEN 0 ELSE resource.startDate
        end == IF resource.endDate = NoDate THEN MaxYears * YearLen + 1 ELSE resource.endDate
        isOutOfBounds == date < start \/ date > end
        countryHolidays == HOLIDAYS[resource.country]
        isHoliday == date \in countryHolidays
        isWknd == isWeekend(date)
        defaultVal == IF isHoliday \/ isWknd THEN 0 ELSE FullDay
        overrideActive == date \in DOMAIN resource.overrides
    IN  [val |-> IF overrideActive THEN resource.overrides[date] ELSE defaultVal,
         defaultVal |-> defaultVal, isHoliday |-> isHoliday, isWknd |-> isWknd,
         overrideActive |-> overrideActive, isOutOfBounds |-> isOutOfBounds]

\* utils.calculateDayStatus; '0000-00-00' is before every date and '9999-12-31' after
calculateDayStatus(date, resource) ==
    LET start == IF resource.startDate = NoDate THEN 0 ELSE resource.startDate
        end == IF resource.endDate = NoDate THEN MaxYears * YearLen + 1 ELSE resource.endDate
        isOutOfBounds == date < start \/ date > end
        countryHolidays == HOLIDAYS[resource.country]
        isHoliday == date \in countryHolidays
        isWknd == isWeekend(date)
        defaultVal == IF isHoliday \/ isWknd THEN 0 ELSE FullDay
        overrideActive == date \in DOMAIN resource.overrides
        val == IF overrideActive THEN resource.overrides[date] ELSE defaultVal
    IN  [val |-> IF isOutOfBounds THEN 0 ELSE val,
         defaultVal |-> defaultVal, isHoliday |-> isHoliday, isWknd |-> isWknd,
         overrideActive |-> overrideActive, isOutOfBounds |-> isOutOfBounds]

\* yearly stats that read the override before the contract bounds
getResourceYearlyStatsOverrideFirst(res, currentYear) ==
    LET days == eachDayOfInterval(startOfYear(currentYear), endOfYear(currentYear))
        resStart == IF res.startDate = NoDate THEN startOfYear(currentYear) ELSE res.startDate
        resEnd == IF res.endDate = NoDate THEN endOfYear(currentYear) ELSE res.endDate
        val(dateStr) ==
            IF dateStr \in DOMAIN res.overrides THEN res.overrides[dateStr]
            ELSE IF dateStr < resStart \/ dateStr > resEnd THEN 0
            ELSE IF dateStr \in HOLIDAYS[res.country] \/ isWeekend(dateStr) THEN 0
            ELSE FullDay
        totalDays == Sum([i \in DOMAIN days |-> val(days[i])])
    IN  [days |-> totalDays, cost |-> totalDays * res.tjm]

\* ResourceList.getResourceYearlyStats, for the year of the clock
getResourceYearlyStats(res, currentYear) ==
    LET days == eachDayOfInterval(startOfYear(currentYear), endOfYear(currentYear))
        resStart == IF res.startDate = NoDate THEN startOfYear(currentYear) ELSE res.startDate
        resEnd == IF res.endDate = NoDate THEN endOfYear(currentYear) ELSE res.endDate
        val(dateStr) ==
            IF dateStr < resStart \/ dateStr > resEnd THEN 0
            ELSE LET isHoliday == dateStr \in HOLIDAYS[res.country]
                     isWknd == isWeekend(dateStr)
                     defaultVal == IF isHoliday \/ isWknd THEN 0 ELSE FullDay
                 IN  IF dateStr \in DOMAIN res.overrides THEN res.overrides[dateStr]
                     ELSE defaultVal
        totalDays == Sum([i \in DOMAIN days |-> val(days[i])])
    IN  [days |-> totalDays, cost |-> totalDays * res.tjm]

\* the total of a calendar view over the days from start to end
ViewTotal(resource, start, end) ==
    LET days == eachDayOfInterval(start, end)
        status(day) == calculateDayStatus(day, resource)
    IN  Sum([i \in DOMAIN days |-> IF ~status(days[i]).isOutOfBounds
                                    THEN status(days[i]).val ELSE 0])

\* ResourceCalendar.yearlyStats
yearlyStats(resource, selectedYear) ==
    ViewTotal(resource, startOfYear(selectedYear), endOfYear(selectedYear))

\* ResourceCalendar.getMonthlyStats
getMonthlyStats(resource, selectedYear, monthIndex) ==
    ViewTotal(resource, startOfMonth(selectedYear, monthIndex),
              endOfMonth(selectedYear, monthIndex))

\* the resources a calendar is computed for
CalendarOverrides ==
    UNION {[S -> OverrideValues] : S \in {T \in SUBSET Days : Cardinality(T) <= MaxOverrides}}
CalendarResources ==
    [startDate : {NoDate} \cup Days, endDate : {NoDate} \cup Days, country : Countries,
     overrides : CalendarOverrides,
     dynamicHolidays : {T \in SUBSET Days : Cardinality(T) <= MaxHolidays},
     tjm : {MaxTjm}]

\* the hook is not mounted
NoHook ==
    /\ scenarios = <<>> /\ resources = <<>>
    /\ nextScenarioId = 1 /\ nextResourceId = 1 /\ now = 0
    /\ versions = <<>> /\ activeScenarioId = NoId
    /\ activeResources = <<>> /\ resourcesOf = NoId
    /\ isLoading = TRUE /\ tasks = {}
    /\ limits = [scenarios |-> 0, resources |-> 0, edits |-> 0]
    /\ edits = 0 /\ called = "none" /\ outcome = NoResult

\* a view holds one resource
InitCalendar ==
    /\ NoHook
    /\ heap \in {[r \in {1} |-> v] : v \in CalendarResources}
    /\ computed = NoCall
    /\ statsCache = <<>>
    /\ statsObjects = <<>>
    /\ calls = <<>>
    /\ NoTemplates
    /\ listeners = {}

\* what a call of a calendar function leaves alone
CalendarFrame == UNCHANGED <<hookVars, templateVars, listeners, heap, statsCache, statsObjects, calls>>

\* a day cell of the calendar is rendered
DayCell ==
    /\ \E r \in DOMAIN heap, date \in Days :
          computed' = [op |-> "calculateDayStatus", resource |-> r, date |-> date,
                       result |-> calculateDayStatus(date, heap[r])]
    /\ CalendarFrame

\* a row of the resource list is rendered
ListRow ==
    /\ \E r \in DOMAIN heap, currentYear \in Years :
          computed' = [op |-> "getResourceYearlyStats", resource |-> r, year |-> currentYear,
                       result |-> getResourceYearlyStats(heap[r], currentYear)]
    /\ CalendarFrame

\* the yearly total of the calendar view is rendered
YearTotal ==
    /\ \E r \in DOMAIN heap, selectedYear \in Years :
          computed' = [op |-> "yearlyStats", resource |-> r, year |-> selectedYear,
                       result |-> yearlyStats(heap[r], selectedYear)]
    /\ CalendarFrame

\* the total of a month of the calendar view is rendered
MonthTotal ==
    /\ \E r \in DOMAIN heap, selectedYear \in Years, monthIndex \in Months :
          computed' = [op |-> "getMonthlyStats", resource |-> r, year |-> selectedYear,
                       month |-> monthIndex,
                       result |-> getMonthlyStats(heap[r], selectedYear, monthIndex)]
    /\ CalendarFrame

NextCalendar ==
    \/ DayCell
    \/ ListRow
    \/ YearTotal
    \/ MonthTotal

SpecCalendar == InitCalendar /\ [][NextCalendar]_vars

\* ------------------------------------------------------------ calculateDayStatus
\* the date is outside [startDate, endDate], an empty bound excluding nothing
Outside(date, resource) ==
    \/ resource.startDate # NoDate /\ date < resource.startDate
    \/ resource.endDate # NoDate /\ date > resource.endDate

\* C14: for every resource and every date outside [startDate, endDate],
\* calculateDayStatus returns value 0 and isOutOfBounds = true, whatever the override,
\* weekend or holiday status of the date
OutOfBoundsIsZero ==
    computed.op = "calculateDayStatus"
    => (Outside(computed.date, heap[computed.resource])
        => computed.result.val = 0 /\ computed.result.isOutOfBounds)

\* the status of a working day outside the contract that carries an override of 1
OverriddenOutside ==
    /\ computed.op = "calculateDayStatus"
    /\ Outside(computed.date, heap[computed.resource])
    /\ computed.date \in DOMAIN heap[computed.resource].overrides
    /\ heap[computed.resource].overrides[computed.date] = FullDay
    /\ ~computed.result.isWknd /\ ~computed.result.isHoliday

\* C15: calculateDayStatus reports isHoliday = true exactly when the date belongs to
\* the union of the country's static holidays and the resource's dynamicHolidays; an
\* in-bounds weekday listed only in dynamicHolidays, without an override, yields
\* isHoliday = true and value 0
HolidayIsUnion ==
    computed.op = "calculateDayStatus"
    => LET R == heap[computed.resource]
           date == computed.date
       IN  /\ computed.result.isHoliday
              <=> date \in HOLIDAYS[R.country] \cup R.dynamicHolidays
           /\ (/\ ~Outside(date, R) /\ ~isWeekend(date)
               /\ date \in R.dynamicHolidays /\ date \notin HOLIDAYS[R.country]
               /\ date \notin DOMAIN R.overrides)
              => computed.result.isHoliday /\ computed.result.val = 0

\* C16: for an in-bounds date with an override v, calculateDayStatus returns value v
\* and overrideActive = true whether or not the date is a weekend or a holiday, while
\* isWknd, isHoliday and defaultVal report the calendar facts; without an override
\* the value is 0 on weekends and holidays and 1 otherwise
OverridePrecedence ==
    computed.op = "calculateDayStatus"
    => LET R == heap[computed.resource]
           date == computed.date
           holiday == date \in HOLIDAYS[R.country] \cup R.dynamicHolidays
           default == IF isWeekend(date) \/ holiday THEN 0 ELSE FullDay
       IN  ~Outside(date, R)
           => /\ computed.result.isWknd <=> isWeekend(date)
              /\ computed.result.isHoliday <=> holiday
              /\ computed.result.defaultVal = default
              /\ computed.result.overrideActive <=> date \in DOMAIN R.overrides
              /\ computed.result.val = IF date \in DOMAIN R.overrides
                                        THEN R.overrides[date] ELSE default

\* ------------------------------------------------------------ yearly and monthly totals
\* the sum of calculateDayStatus(d, resource).val over the days d from start to end
SumOfDayStatus(resource, start, end) ==
    Sum([d \in start..end |-> calculateDayStatus(d, resource).val])

calculateYearlyStats(resource, year) ==
    LET holidays == HOLIDAYS[resource.country] \cup resource.dynamicHolidays
        contribution(d) ==
            IF Outside(d, resource) THEN 0
            ELSE IF d \in DOMAIN resource.overrides THEN resource.overrides[d]
            ELSE IF d \in holidays THEN 0
            ELSE IF isWeekend(d) THEN 0
            ELSE FullDay
        dates == eachDayOfInterval(startOfYear(year), endOfYear(year))
        days == Sum([i \in DOMAIN dates |-> contribution(dates[i])])
    IN  [days |-> days, cost |-> days * resource.tjm]

\* the resource values the views hold
CachedResources ==
    [startDate : {NoDate}, endDate : {NoDate, 1}, country : {"FR"},
     overrides : {<<>>}, dynamicHolidays : {{}, {1}}, tjm : Tjms]

\* a view holds resource objects, some of them with equal field values; nothing is cached
InitCache ==
    /\ NoHook
    /\ heap \in [1..MaxRefs -> CachedResources]
    /\ computed = NoCall
    /\ statsCache = <<>>
    /\ statsObjects = <<>>
    /\ calls = <<>>
    /\ NoTemplates
    /\ listeners = {}

\* a cache that does not look at the year of its entry
getCachedResourceStatsAnyYear(resource, year) ==
    /\ Len(calls) < MaxCalls
    /\ LET hit == resource \in DOMAIN statsCache
           valueToCache == Len(statsObjects) + 1
           result == calculateYearlyStats(heap[resource], year)
       IN  /\ IF hit
              THEN UNCHANGED <<statsCache, statsObjects>>
              ELSE /\ statsObjects' = Append(statsObjects,
                          [days |-> result.days, cost |-> result.cost, year |-> year])
                   /\ statsCache' = [r \in DOMAIN statsCache \cup {resource} |->
                          IF r = resource THEN valueToCache ELSE statsCache[r]]
           /\ calls' = Append(calls, [resource |-> resource, year |-> year,
                          returned |-> IF hit THEN statsCache[resource] ELSE valueToCache])
    /\ UNCHANGED <<hookVars, templateVars, listeners, heap, computed>>

\* getCachedResourceStats(resource, year): the cached object when the reference has an
\* entry of that year, else a new object {...result, year} stored under the reference
getCachedResourceStats(resource, year) ==
    /\ Len(calls) < MaxCalls
    /\ LET hit == /\ resource \in DOMAIN statsCache
                  /\ statsObjects[statsCache[resource]].year = year
           valueToCache == Len(statsObjects) + 1
           result == calculateYearlyStats(heap[resource], year)
       IN  /\ IF hit
              THEN UNCHANGED <<statsCache, statsObjects>>
              ELSE /\ statsObjects' = Append(statsObjects,
                          [days |-> result.days, cost |-> result.cost, year |-> year])
                   /\ statsCache' = [r \in DOMAIN statsCache \cup {resource} |->
                          IF r = resource THEN valueToCache ELSE statsCache[r]]
           /\ calls' = Append(calls, [resource |-> resource, year |-> year,
                          returned |-> IF hit THEN statsCache[resource] ELSE valueToCache])
    /\ UNCHANGED <<hookVars, templateVars, listeners, heap, computed>>

NextCache ==
    \E resource \in DOMAIN heap, year \in Years : getCachedResourceStats(resource, year)

SpecCache == InitCache /\ [][NextCache]_vars

\* the call before call j that was made with the same resource reference, 0 if none
PreviousCall(j) ==
    LET earlier == {i \in 1..(j - 1) : calls[i].resource = calls[j].resource}
    IN  IF earlier = {} THEN 0 ELSE CHOOSE i \in earlier : \A k \in earlier : k <= i

\* C18: getCachedResourceStats(r, y) returns the identical object when r was last
\* called with the same year; it returns a newly computed object, distinct from every
\* object returned before, when r was last called with another year or was never
\* called; and two distinct references get distinct objects, with equal days and cost
\* when their field values and the years are equal
CacheByIdentity ==
    \A j \in DOMAIN calls :
        LET i == PreviousCall(j) IN
        /\ (i # 0 /\ calls[i].year = calls[j].year)
           => calls[j].returned = calls[i].returned
        /\ (i = 0 \/ (i # 0 /\ calls[i].year # calls[j].year))
           => \A k \in 1..(j - 1) : calls[k].returned # calls[j].returned
        /\ \A k \in DOMAIN calls :
              calls[k].resource # calls[j].resource
              => /\ calls[k].returned # calls[j].returned
                 /\ (heap[calls[k].resource] = heap[calls[j].resource]
                        /\ calls[k].year = calls[j].year)
                    => /\ statsObjects[calls[k].returned].days
                          = statsObjects[calls[j].returned].days
                       /\ statsObjects[calls[k].returned].cost
                          = statsObjects[calls[j].returned].cost

\* a resource was called with a year, with another year, with the first year again and
\* once more: the last call is a hit, the one before a miss that recomputes
HitAfterRecompute ==
    /\ Len(calls) = 4
    /\ calls[1].resource = calls[2].resource /\ calls[2].resource = calls[3].resource
    /\ calls[3].resource = calls[4].resource
    /\ calls[1].year # calls[2].year /\ calls[3].year = calls[1].year
    /\ calls[4].year = calls[3].year
    /\ calls[4].returned = calls[3].returned
    /\ calls[3].returned # calls[1].returned

\* ============================================================ calendarService
\* a country left out of the updates (undefined)
NoCountry == "none"

\* the templates a form submits
Templates == [country : Countries, isDefault : BOOLEAN]

\* the updates a form submits: the keys present, a country when its key is present, and
\* isDefault, which is false (falsy) when its key is absent
Updates ==
    {u \in [keys : SUBSET {"country", "isDefault"}, country : Countries \cup {NoCountry},
            isDefault : BOOLEAN] :
        /\ ("country" \in u.keys) <=> (u.country # NoCountry)
        /\ u.isDefault => "isDefault" \in u.keys}

\* a calendarService call in flight: what it waits for, the template or updates it was
\* given, the id it updates, the country whose defaults it unsets and the documents its
\* batch updates
TemplateOp(op, pc, id, data, country) ==
    [op |-> op, pc |-> pc, id |-> id, data |-> data, country |-> country, unset |-> {}]

CanCall == Cardinality(templateOps) < MaxTemplateOps

\* what a step of calendarService leaves alone
TemplateFrame == UNCHANGED <<hookVars, statsVars, listeners>>

\* createTemplate(template): unsetDefaultsForCountry first when it is a default
createTemplate(template) ==
    /\ CanCall
    /\ nextTemplateId <= MaxTemplates
    /\ nextTemplateId' = nextTemplateId + 1
    /\ templateOps' = templateOps \cup
          {TemplateOp("createTemplate", IF template.isDefault THEN "getDocs" ELSE "write",
                      nextTemplateId, template, template.country)}
    /\ UNCHANGED templates
    /\ TemplateFrame

\* updateTemplate(id, updates): when updates.isDefault, the country is updates.country
\* or, without it, that of the existing document
updateTemplate(id, updates) ==
    /\ CanCall
    /\ templateOps' = templateOps \cup
          {TemplateOp("updateTemplate",
                      IF ~updates.isDefault THEN "write"
                      ELSE IF updates.country = NoCountry THEN "getTemplateById"
                      ELSE "getDocs",
                      id, updates, updates.country)}
    /\ UNCHANGED <<templates, nextTemplateId>>
    /\ TemplateFrame

\* await this.getTemplateById(id) resolves: no document, no country, nothing unset
GetTemplateById(t) ==
    /\ t.pc = "getTemplateById"
    /\ templateOps' = (templateOps \ {t}) \cup
          {IF t.id \in DOMAIN templates
           THEN [t EXCEPT !.country = templates[t.id].country, !.pc = "getDocs"]
           ELSE [t EXCEPT !.pc = "write"]}
    /\ UNCHANGED <<templates, nextTemplateId>>
    /\ TemplateFrame

\* unsetDefaultsForCountry(country, excludeId): await getDocs(q) resolves and the batch
\* is built; excludeId is the id of an update, none for a create
GetDocs(t) ==
    /\ t.pc = "getDocs"
    /\ LET excludeId == IF t.op = "updateTemplate" THEN t.id ELSE 0
           docs == {d \in DOMAIN templates :
                        /\ templates[d].country = t.country
                        /\ templates[d].isDefault
                        /\ d # excludeId}
       IN  templateOps' = (templateOps \ {t}) \cup
              {[t EXCEPT !.unset = docs, !.pc = IF docs = {} THEN "write" ELSE "commit"]}
    /\ UNCHANGED <<templates, nextTemplateId>>
    /\ TemplateFrame

\* await batch.commit() resolves; it rejects, and the call with it, when a document of
\* the batch is gone
Commit(t) ==
    /\ t.pc = "commit"
    /\ IF t.unset \subseteq DOMAIN templates
       THEN /\ templates' = [d \in DOMAIN templates |->
                                IF d \in t.unset THEN [templates[d] EXCEPT !.isDefault = FALSE]
                                ELSE templates[d]]
            /\ templateOps' = (templateOps \ {t}) \cup {[t EXCEPT !.pc = "write"]}
       ELSE /\ templateOps' = templateOps \ {t}
            /\ UNCHANGED templates
    /\ UNCHANGED nextTemplateId
    /\ TemplateFrame

\* await addDoc(...) or await updateDoc(docRef, updates) resolves; updateDoc rejects when
\* the document is gone
Write(t) ==
    /\ t.pc = "write"
    /\ templateOps' = templateOps \ {t}
    /\ templates' =
          IF t.op = "createTemplate"
          THEN [d \in DOMAIN templates \cup {t.id} |->
                    IF d = t.id THEN t.data ELSE templates[d]]
          ELSE IF t.id \in DOMAIN templates
          THEN [templates EXCEPT
                    ![t.id].country = IF "country" \in t.data.keys THEN t.data.country ELSE @,
                    ![t.id].isDefault = IF "isDefault" \in t.data.keys THEN t.data.isDefault ELSE @]
          ELSE templates
    /\ UNCHANGED nextTemplateId
    /\ TemplateFrame

\* deleteTemplate(id): await deleteDoc(...) resolves
deleteTemplate(id) ==
    /\ id \in DOMAIN templates
    /\ templates' = [d \in DOMAIN templates \ {id} |-> templates[d]]
    /\ UNCHANGED <<nextTemplateId, templateOps>>
    /\ TemplateFrame

\* a store call of calendarService rejects: the call ends there
TemplateFail(t) ==
    /\ templateOps' = templateOps \ {t}
    /\ UNCHANGED <<templates, nextTemplateId>>
    /\ TemplateFrame

InitTemplates ==
    /\ NoHook
    /\ NoStats
    /\ NoTemplates
    /\ listeners = {}

NextTemplates ==
    \/ \E template \in Templates : createTemplate(template)
    \/ \E id \in 1..MaxTemplates, updates \in Updates : updateTemplate(id, updates)
    \/ \E id \in 1..MaxTemplates : deleteTemplate(id)
    \/ \E t \in templateOps : GetTemplateById(t)
    \/ \E t \in templateOps : GetDocs(t)
    \/ \E t \in templateOps : Commit(t)
    \/ \E t \in templateOps : Write(t)
    \/ \E t \in templateOps : TemplateFail(t)

SpecTemplates == InitTemplates /\ [][NextTemplates]_vars

\* C19: after any sequence of createTemplate, updateTemplate and deleteTemplate calls,
\* interleaved or not, each country has at most one template with isDefault = true
OneDefaultPerCountry ==
    templateOps = {}
    => \A c \in Countries :
          Cardinality({d \in DOMAIN templates :
                          templates[d].country = c /\ templates[d].isDefault}) <= 1

\* ============================================================ subscribeToScenarios
\* another user, whose scenarios are in the same collection
OtherUser == "u2"

\* the scenario documents a subscription can find in the store
StoredScenarios ==
    [status : {DRAFT, MASTER, ARCHIVED}, ownerId : {User, OtherUser}, parentId : {NoId},
     envelopes : {{}}, updatedAt : 0..MaxNow]

\* the store holds scenarios of both users; nobody has subscribed
InitSubscribe ==
    /\ scenarios \in [1..MaxDocs -> StoredScenarios]
    /\ resources = <<>>
    /\ nextScenarioId = MaxDocs + 1 /\ nextResourceId = 1 /\ now = 0
    /\ versions = <<>> /\ activeScenarioId = NoId
    /\ activeResources = <<>> /\ resourcesOf = NoId
    /\ isLoading = TRUE /\ tasks = {}
    /\ limits = [scenarios |-> 0, resources |-> 0, edits |-> 0]
    /\ edits = 0 /\ called = "none" /\ outcome = NoResult
    /\ NoStats
    /\ NoTemplates
    /\ listeners = {}

\* what a step of the subscription leaves alone
SubscribeFrame ==
    UNCHANGED <<scenarios, resources, nextScenarioId, nextResourceId, now, activeScenarioId,
                activeResources, resourcesOf, isLoading, tasks, limits, edits, outcome,
                statsVars, templateVars>>

\* scenarioService.subscribeToScenarios(userId, onUpdate, onError)
subscribeToScenarios(userId) ==
    /\ listeners = {}
    /\ listeners' = onSnapshotScenarios(userId)
    /\ called' = "subscribeToScenarios"
    /\ UNCHANGED versions
    /\ SubscribeFrame

\* a listener is called with a snapshot: the documents are sorted and passed to onUpdate
Snapshot(l) ==
    /\ versions' = LoadedDocs
    /\ called' = "onUpdate"
    /\ UNCHANGED listeners
    /\ SubscribeFrame

\* the Unsubscribe that subscribeToScenarios returned is called
unsubscribe ==
    /\ listeners # {}
    /\ listeners' = {}
    /\ called' = "unsubscribe"
    /\ UNCHANGED versions
    /\ SubscribeFrame

NextSubscribe ==
    \/ subscribeToScenarios(User)
    \/ \E l \in listeners : Snapshot(l)
    \/ unsubscribe

SpecSubscribe == InitSubscribe /\ [][NextSubscribe]_vars

\* C20: subscribeToScenarios registers two store listeners; each update it delivers is
\* sorted with DRAFT scenarios first and then by updatedAt descending; and calling the
\* returned unsubscribe function leaves no listener registered
TwoListenersMerged ==
    /\ called = "subscribeToScenarios" => Cardinality(listeners) = 2
    /\ called = "onUpdate"
       => \A i, j \in DOMAIN versions :
             i < j => \/ versions[i].status = DRAFT /\ versions[j].status # DRAFT
                      \/ /\ (versions[i].status = DRAFT) <=> (versions[j].status = DRAFT)
                         /\ versions[i].updatedAt >= versions[j].updatedAt
    /\ called = "unsubscribe" => listeners = {}

\* ============================================================ hook: resetAllData
\* resetAllData: setIsLoading(true), then the loop over versions; the task keeps in
\* masters the ids of versions the loop has yet to delete
resetAllData ==
    /\ CanStart /\ nextScenarioId <= limits.scenarios
    /\ isLoading' = TRUE
    /\ nextScenarioId' = nextScenarioId + 1
    /\ tasks' = tasks \cup {Task("resetAllData", "delete", NoId, nextScenarioId,
                                 {versions[i].id : i \in DOMAIN versions}, {}, now)}
    /\ Call("resetAllData")
    /\ UNCHANGED <<scenarios, resources, nextResourceId, now, versions, activeScenarioId,
                   activeResources, resourcesOf>>

\* scenarioService.deleteScenario(id): deleteDoc on the scenario document
deleteScenario(id) ==
    [i \in DOMAIN scenarios \ {id} |-> scenarios[i]]

\* await scenarioService.deleteScenario(v.id) resolves for the next version of the loop
ResetDelete(t) ==
    /\ t.op = "resetAllData" /\ t.pc = "delete" /\ t.masters # {}
    /\ LET id == CHOOSE v \in t.masters : \A w \in t.masters : v <= w IN
        /\ scenarios' = deleteScenario(id)
        /\ tasks' = (tasks \ {t}) \cup {[t EXCEPT !.masters = t.masters \ {id}]}
    /\ Callback
    /\ UNCHANGED <<resources, nextScenarioId, nextResourceId, now, versions, activeScenarioId,
                   activeResources, resourcesOf, isLoading>>

\* the loop is over: setActiveScenarioId(null), then initializeProject() runs up to its
\* await: setIsLoading(true) takes effect in the same render
ResetInitialize(t) ==
    /\ t.op = "resetAllData" /\ t.pc = "delete" /\ t.masters = {}
    /\ SetActive(NoId)
    /\ isLoading' = TRUE
    /\ tasks' = (tasks \ {t}) \cup {[t EXCEPT !.op = "initializeProject", !.pc = "create"]}
    /\ Callback
    /\ UNCHANGED <<scenarios, resources, nextScenarioId, nextResourceId, now, versions>>

\* a deleteScenario rejects: the error is logged and rethrown after setIsLoading(false)
ResetFail(t, e) ==
    /\ t.op = "resetAllData" /\ t.pc = "delete" /\ t.masters # {}
    /\ tasks' = tasks \ {t}
    /\ isLoading' = FALSE
    /\ SetActive(AutoSelect(FALSE, versions, activeScenarioId))
    /\ called' = "none" /\ UNCHANGED <<limits, edits, aside>>
    /\ outcome' = Threw("resetAllData", e, "delete")
    /\ UNCHANGED <<scenarios, resources, nextScenarioId, nextResourceId, now, versions>>

\* the project exists and the user can reset it
NextReset ==
    \/ DeliverScenarios
    \/ DeliverResources
    \/ resetAllData
    \/ \E t \in tasks :
            \/ ResetDelete(t)
            \/ ResetInitialize(t)
            \/ \E e \in StoreErrors : ResetFail(t, e)
            \/ CreateCommit(t)
            \/ \E e \in StoreErrors : CreateFail(t, e)

SpecReset == InitProject /\ [][NextReset]_vars

\* C21: a resource never outlives its scenario: in no reachable state does a resource
\* exist whose owning scenario no longer exists
NoOrphanResources ==
    \A r \in DOMAIN resources : resources[r].scenarioId \in DOMAIN scenarios

\* ============================================================ override values supplied
\* a number that is no presence value (1.5 in half days): the hook takes
\* value: OverrideValue | undefined, a type that is not checked when the code runs
InvalidValue == 3

\* the values a caller of the hook can pass
SuppliedValues == OverrideValues \cup {Undefined, InvalidValue}

\* the override edits of the hook, called with any value
NextSupplied ==
    \/ DeliverResources
    \/ \E id \in DOMAIN activeResources, d \in Dates, v \in SuppliedValues :
            updateResourceOverride(id, d, v)
    \/ \E id \in DOMAIN activeResources, d1 \in Dates, d2 \in Dates, v \in SuppliedValues :
            d1 <= d2 /\ bulkUpdateResourceOverrides(id, d1, d2, v)
    \/ \E id \in DOMAIN activeResources, hs \in SUBSET Dates :
            applyResourceHolidays(id, hs)

SpecSupplied == InitProject /\ [][NextSupplied]_vars

\* C22: in every reachable state every value stored in a resource's override map is
\* one of 0, 0.5 or 1, whatever value an override edit supplies
OverridesValid ==
    \A r \in DOMAIN resources :
        \A d \in DOMAIN resources[r].overrides :
            resources[r].overrides[d] \in OverrideValues

\* ============================================================ store errors in edits
\* the promise of a store call that nobody awaits is rejected: the hook operation has
\* already returned
Unhandled(op, e, phase) == [op |-> op, kind |-> "unhandled", value |-> NoId, error |-> e, phase |-> phase]

\* the write of an editing operation is rejected with e: addEnvelope, updateEnvelope and
\* deleteEnvelope call scenarioService.updateScenario without awaiting it, the resource
\* operations await the service and reject with its error
EditFail(op, e) ==
    /\ checkMutationAllowed
    /\ called' = "edit"
    /\ outcome' = IF op \in {"addEnvelope", "updateEnvelope", "deleteEnvelope"}
                  THEN Unhandled(op, e, "write")
                  ELSE Threw(op, e, "write")
    /\ UNCHANGED <<scenarios, resources, nextScenarioId, nextResourceId, now, versions,
                   activeScenarioId, activeResources, resourcesOf, isLoading, tasks,
                   limits, edits, aside>>

\* the editing operations of the hook
EditOps ==
    {"addEnvelope", "updateEnvelope", "deleteEnvelope", "addResource", "updateResource",
     "deleteResource", "updateResourceOverride", "bulkUpdateResourceOverrides",
     "applyResourceHolidays"}

\* forks, publishes and edits whose store calls can be rejected
NextErrors ==
    \/ DeliverScenarios
    \/ DeliverResources
    \/ createSnapshot
    \/ publishScenario
    \/ \E op \in EditOps, e \in StoreErrors : EditFail(op, e)
    \/ \E t \in tasks :
            \/ CreateCommit(t)
            \/ \E e \in StoreErrors : CreateFail(t, e)
            \/ PublishCommit(t)
            \/ \E e \in StoreErrors : PublishFail(t, e)
            \/ CopyGetResources(t)
            \/ CopyCommit(t)
            \/ \E e \in StoreErrors : CopyFail(t, e)

SpecErrors == InitProject /\ [][NextErrors]_vars

\* C23: a store error in an edit write, a fork or a publish reaches the caller of the
\* operation as a failure (the operation rejects with the error), and the step in which
\* it fails starts no store operation and writes nothing (no retry)
StoreErrorsSurface ==
    [][outcome'.error # "none"
       => /\ outcome'.kind = "threw"
          /\ tasks' \subseteq tasks
          /\ scenarios' = scenarios /\ resources' = resources
      ]_vars

\* ============================================================ delivery of resources
\* onSnapshot calls the listener after every change of the collection it watches: a
\* snapshot that is due is delivered
SpecDelivery == SpecProject /\ WF_vars(DeliverResources)

\* the resource list held by the hook is the store's collection of the active scenario
Converged ==
    activeResources = IF activeScenarioId = NoId THEN <<>>
                      ELSE LoadedResources(activeScenarioId)

\* C24: after a local write that leaves the held resource list behind the store, the
\* list eventually equals the store's collection of the active scenario with no call
\* of the user, and whenever the held list changes it becomes the collection as the
\* store holds it at that moment, never an earlier content
LocalWriteConverges ==
    /\ (called = "edit" /\ ~Converged) ~> Converged
    /\ [][activeResources' # activeResources => Converged']_vars

\* a holiday import made during the run has reached the held list
ImportDelivered ==
    /\ Converged
    /\ called = "none"
    /\ \E r \in DOMAIN activeResources : activeResources[r].dynamicHolidays # {}

\* ============================================================ the hook's subscriptions
\* no user is signed in (user is null)
NoUser == "none"

\* resourceService.subscribeToResources(scenarioId, ...): the listener it registers on
\* the collection scenarios/{scenarioId}/resources; nothing is subscribed for a null id
onSnapshotResources(scenarioId) ==
    IF scenarioId = NoId THEN {}
    ELSE {[collection |-> "resources", where |-> {<<"scenarioId", "==", scenarioId>>}]}

\* what mounting, rendering and unmounting the hook leave alone
MountFrame ==
    UNCHANGED <<scenarios, resources, nextScenarioId, nextResourceId, now, tasks, limits,
                edits, outcome, statsVars, templateVars>>

\* the resource effect that never returns its unsubscribe
ResourceEffectWithoutCleanup(id) ==
    /\ SetActive(id)
    /\ listeners' = listeners \cup onSnapshotResources(id)

\* setActiveScenarioId(id) and the resource effect it triggers: the cleanup returned by
\* the previous run calls its unsubscribe, then the body subscribes to the new id
ResourceEffect(id) ==
    /\ SetActive(id)
    /\ listeners' = (listeners \ onSnapshotResources(resourcesOf)) \cup onSnapshotResources(id)

\* the hook is rendered for the first time or with another user: the cleanup of the
\* scenario effect runs, then its body; on the first render the resource effect runs
\* with a null id
render(user) ==
    /\ called # "unmount"
    /\ user = User => ~(onSnapshotScenarios(User) \subseteq listeners)
    /\ user = NoUser => called = "none" \/ onSnapshotScenarios(User) \subseteq listeners
    /\ listeners' = (listeners \ onSnapshotScenarios(User))
                    \cup (IF user = NoUser THEN {} ELSE onSnapshotScenarios(user))
    /\ versions' = IF user = NoUser THEN <<>> ELSE versions
    /\ isLoading' = (user # NoUser)
    /\ called' = "render"
    /\ UNCHANGED <<activeScenarioId, activeResources, resourcesOf>>
    /\ MountFrame

\* the scenarios listener of the mounted hook fires, then the auto-select effect
onUpdateScenarios ==
    /\ called # "unmount"
    /\ onSnapshotScenarios(User) \subseteq listeners
    /\ versions' = LoadedDocs
    /\ isLoading' = FALSE
    /\ ResourceEffect(AutoSelect(FALSE, LoadedDocs, activeScenarioId))
    /\ called' = "onUpdate"
    /\ MountFrame

\* an operation of the mounted hook calls setActiveScenarioId: restoreSnapshot with a
\* listed id, resetAllData with null and, in the same render, the setIsLoading(true) of
\* the initializeProject it goes on with
setActiveScenarioId(id) ==
    /\ called \notin {"none", "unmount"}
    /\ id # activeScenarioId
    /\ ResourceEffect(id)
    /\ isLoading' = IF id = NoId THEN TRUE ELSE isLoading
    /\ called' = "setActiveScenarioId"
    /\ UNCHANGED versions
    /\ MountFrame

\* the hook unmounts: the cleanups of both effects run
unmount ==
    /\ called \notin {"none", "unmount"}
    /\ listeners' = listeners \ (onSnapshotScenarios(User) \cup onSnapshotResources(resourcesOf))
    /\ called' = "unmount"
    /\ UNCHANGED <<versions, isLoading, activeScenarioId, activeResources, resourcesOf>>
    /\ MountFrame

NextMount ==
    \/ \E user \in {User, NoUser} : render(user)
    \/ onUpdateScenarios
    \/ \E id \in {versions[i].id : i \in DOMAIN versions} \cup {NoId} : setActiveScenarioId(id)
    \/ unmount

SpecMount == InitSubscribe /\ [][NextMount]_vars

\* C25: the resource subscriptions open are exactly the one for the current active
\* scenario while the hook is mounted with an active scenario, and none otherwise, so
\* the one opened for a previous scenario is released; the scenario-list subscription
\* is released once the user became null or the hook unmounted
SubscriptionsReleased ==
    /\ {l \in listeners : l.collection = "resources"}
         = IF called \in {"none", "unmount"} THEN {} ELSE onSnapshotResources(activeScenarioId)
    /\ Cardinality({l \in listeners : l.collection = "resources"}) <= 1
    /\ called = "render" /\ ~isLoading => onSnapshotScenarios(User) \cap listeners = {}
    /\ called = "unmount" => listeners = {}

\* the hook unmounted after the user had switched away from the auto-selected scenario
UnmountedAfterSwitch ==
    /\ called = "unmount"
    /\ Len(versions) = 2
    /\ activeScenarioId \notin {NoId, AutoSelect(FALSE, versions, NoId)}

\* ============================================================ the cached statistics
\* C26: the object returned by a call getCachedResourceStats(r, y) has year = y, days
\* equal to the yearly aggregate of r for y and cost = days * r.tjm; the cache holds
\* one entry per reference, the object returned by the last call made with it, so a
\* call with the year of the call before last, another year lying between, gets a new
\* object
CachedStatsCurrent ==
    /\ \A j \in DOMAIN calls :
          LET returned == statsObjects[calls[j].returned]
              r == heap[calls[j].resource]
              i == PreviousCall(j)
          IN  /\ returned.year = calls[j].year
              /\ returned.days = calculateYearlyStats(r, calls[j].year).days
              /\ returned.cost = returned.days * r.tjm
              /\ (i # 0 /\ PreviousCall(i) # 0 /\ calls[i].year # calls[j].year
                    /\ calls[PreviousCall(i)].year = calls[j].year)
                 => calls[j].returned # calls[PreviousCall(i)].returned
    /\ \A r \in DOMAIN statsCache :
          \E j \in DOMAIN calls :
              /\ calls[j].resource = r
              /\ statsCache[r] = calls[j].returned
              /\ \A k \in DOMAIN calls : calls[k].resource = r => k <= j

\* a reference was called with a year, another year and the first year again: the third
\* call returned a new object with the days and the cost of the first
RecomputedEarlierYear ==
    /\ Len(calls) = 3
    /\ calls[1].resource = calls[2].resource /\ calls[2].resource = calls[3].resource
    /\ calls[1].year # calls[2].year /\ calls[3].year = calls[1].year
    /\ calls[3].returned # calls[1].returned
    /\ statsObjects[calls[3].returned].cost = statsObjects[calls[1].returned].cost
    /\ statsObjects[calls[3].returned].cost > 0
    /\ statsObjects[calls[2].returned].days # statsObjects[calls[1].returned].days

\* ============================================================ publishing twice
\* C27: a draft D is published once: the batch of a publish of D commits only while D
\* is still a DRAFT in the store, so that a second invocation made before the list
\* shows the first publish creates no second continuation draft with parentId D and
\* copies D's resources no second time
PublishedOnce ==
    [][\A t \in tasks :
         (/\ t.op = "publishScenario" /\ t.pc = "batch"
          /\ [t EXCEPT !.pc = "getResources"] \in tasks')
         => /\ scenarios[t.src].status = DRAFT
            /\ ~\E n \in DOMAIN scenarios :
                    /\ scenarios[n].parentId = t.src
                    /\ \E u \in tasks : u.op = "publishScenario" /\ u.newId = n
      ]_vars

\* ============================================================ two override edits
\* the user's draft holds up to two resources without overrides, all of it loaded; the
\* calendar is clicked MaxOverrideEdits times
InitOverrides ==
    /\ limits = [scenarios |-> 1, resources |-> MaxResources, edits |-> MaxOverrideEdits]
    /\ scenarios = SetDoc(<<>>, 1, [status |-> DRAFT, ownerId |-> User, parentId |-> NoId,
                                    envelopes |-> {}, updatedAt |-> 0])
    /\ \E n \in 1..2 : \E entered \in [1..n -> NewResources] :
            /\ resources = [r \in 1..n |->
                                [scenarioId |-> 1, tjm |-> entered[r].tjm,
                                 overrides |-> entered[r].overrides,
                                 dynamicHolidays |-> entered[r].dynamicHolidays]]
            /\ nextResourceId = n + 1
    /\ nextScenarioId = 2 /\ now = 0
    /\ versions = LoadedDocs
    /\ activeScenarioId = 1 /\ resourcesOf = 1
    /\ activeResources = LoadedResources(1)
    /\ isLoading = FALSE /\ tasks = {}
    /\ edits = 0 /\ called = "none" /\ outcome = NoResult
    /\ NoStats
    /\ NoTemplates
    /\ listeners = onSnapshotScenarios(User)

\* clicks on days of the calendar, and the resources listener
NextOverrides ==
    \/ DeliverResources
    \/ \E id \in DOMAIN activeResources, d \in 1..MaxOverrideDates,
          v \in OverrideValues \cup {Undefined} :
            updateResourceOverride(id, d, v)

SpecOverrides == InitOverrides /\ [][NextOverrides]_vars

\* C28: an override edit of one date never erases or changes the stored entry of
\* another date of the resource: each edit changes the stored override map at one date
\* at most, so that of two edits of different dates both entries are stored in the end
EditKeepsOtherDates ==
    [][\A r \in DOMAIN resources :
         Cardinality({d \in 1..MaxOverrideDates :
                        \/ (d \in DOMAIN resources[r].overrides)
                              # (d \in DOMAIN resources'[r].overrides)
                        \/ /\ d \in DOMAIN resources[r].overrides
                           /\ d \in DOMAIN resources'[r].overrides
                           /\ resources[r].overrides[d] # resources'[r].overrides[d]}) <= 1
      ]_vars

\* ============================================================ the composed scenario
\* C29: in every reachable state every resource of the composed scenario that the store
\* holds is a document of the resource collection of scenario.id: none was loaded for
\* a scenario that was active before
ResourcesOfActiveScenario ==
    HasScenario
    => \A r \in DOMAIN activeResources :
          r \in DOMAIN resources => resources[r].scenarioId = scenario.id

\* ============================================================ auto-selection
\* C30: once the list is loaded and not empty a scenario is active; when a delivery of
\* the list finds no scenario active it makes active the first listed DRAFT, which no
\* listed DRAFT is more recent than, if there is one, otherwise a MASTER, otherwise the
\* first listed scenario; and it leaves a scenario that is already active in place
AutoSelected ==
    /\ [](called = "onUpdate" /\ Len(versions) > 0 => activeScenarioId # NoId)
    /\ [][called' = "onUpdate" =>
            LET drafts == {i \in DOMAIN versions' : versions'[i].status = DRAFT}
                masters == {i \in DOMAIN versions' : versions'[i].status = MASTER}
            IN  IF activeScenarioId # NoId THEN activeScenarioId' = activeScenarioId
                ELSE IF versions' = <<>> THEN activeScenarioId' = NoId
                ELSE IF drafts # {}
                THEN \E i \in drafts :
                        /\ versions'[i].id = activeScenarioId'
                        /\ \A j \in drafts :
                              i <= j /\ versions'[j].updatedAt <= versions'[i].updatedAt
                ELSE IF masters # {}
                THEN \E i \in masters : versions'[i].id = activeScenarioId'
                ELSE activeScenarioId' = versions'[1].id
      ]_vars

\* the list holds no draft and an archived scenario ahead of the master: the master was
\* selected
MasterSelectedBehindArchived ==
    /\ called = "onUpdate"
    /\ Len(versions) = 2
    /\ versions[1].status = ARCHIVED /\ versions[2].status = MASTER
    /\ activeScenarioId = versions[2].id

====
